---- MODULE Spec2Model ----
(***************************************************************************)
(* The map analysis workflow orchestrator of                                *)
(* frontend/app/search_area/page.tsx (the SearchArea component): the        *)
(* segmentation -> heatmap -> flight-path pipeline, the overlay handles it  *)
(* keeps, the timer-driven fade-in animation and the view switches.         *)
(*                                                                         *)
(* One action is one task of the browser's event loop: a click handler, a   *)
(* timer callback or the continuation of an awaited fetch, together with    *)
(* the re-render and the effects React runs for the state it set.  A        *)
(* function of the component reads the React state of the render that       *)
(* created it, so a timer or a request in flight carries that render's      *)
(* values (its closure, cl); the renderer's objects (overlays, camera) and  *)
(* animationRef are shared and read live.                                   *)
(***************************************************************************)
EXTENDS Integers, Sequences, FiniteSets, TLC

\* ------------------------------------------------------------ bounds
MaxSegRequests == 2
MaxHeatmapRequests == 2
MaxFlightRequests == 1
MaxRuns == 2
MaxMaskToggles == 1
GridSize == 4
MaxPolls == 6              \* interval callbacks of one activation of the poller

\* ------------------------------------------------- program constants
\* opacities in hundredths
FadeStep == 3
TargetOpacity == 85
StopOpacity == 70
PollSeconds == 5            \* elapsed += 5, every 5000 ms
PollLimit == 20             \* if (elapsed >= 20) clearInterval(interval)

layerOrder == <<"water", "sparse_forest", "dense_forest", "roads">>

\* layer sets a segmentation response may carry (data.layers)
ResponseLayers == {{}, {"other"}, {"water", "roads"}, {"water", "other"}}

DefaultBox == [north |-> 2, south |-> 1, east |-> 2, west |-> 1]

NoLayers == [name \in {} |-> <<0, "">>]

NoMask == <<"null", 0>>

\* the poller before its effect has run: no interval, no poll
NoPoller == [interval |-> FALSE, elapsed |-> 0, polls |-> << >>,
             cleaned |-> FALSE, submittedImg |-> FALSE]

VARIABLES
  mounted,                \* the component is mounted
  mapInstance,            \* useState: the map exists (TRUE) or is null
  boundingBox,
  loading,
  animatedLayers,         \* useState: layer name -> overlay handle
  animationActive,
  animationProgress,
  currentAnimationStep,
  maskOverlay,            \* useState: NoMask (null) or the handle of the four rectangles
  originalMapView,        \* useState: "null" or the saved camera
  isZoomedIn,
  workflowStep,
  heatmapData,            \* "null", "missing" (undefined) or "data"
  heatmapOverlay,         \* 0 (null) or the handle of the heatmap layer
  flightPathData,         \* "null", "empty" or "path"
  flightPathOverlay,      \* 0 (null) or the handle of the path overlays
  currentView,
  terrainAnalysisComplete,
  heatmapComplete,
  hasAutoStarted,
  animationRef,           \* useRef: [active, timeouts]
  groundOverlays,         \* renderer: GroundOverlay handle -> [map, opacity]
  rectangles,             \* renderer: mask handles attached to the map
  heatmapLayers,          \* renderer: HeatmapLayer handle -> attached
  flightOverlays,         \* renderer: polyline+markers handle -> attached
  camera,                 \* renderer: the viewport
  timers,                 \* event loop: pending timeouts of the animation
  untracked,              \* event loop: pending timeouts nobody keeps a handle of
  requests,               \* fetches in flight
  runs,                   \* the calls of startAnimation and their closures
  issued,                 \* how many requests and masks were made so far
  coordinates,            \* the coordinate records of a backend response
  heatmapPoints,          \* displayHeatmap: [called, data: the points of the HeatmapLayer]
  pathCoordinates,        \* displayFlightPath: [called, data: the positions of the path]
  mapBounds,              \* mapInstance.getBounds(): the visible extent
  maskRectangles,         \* createMaskOverlay: the bounds of the rectangles it made
  area,                   \* calculateArea(boundingBox) as the panel shows it
  poller                  \* the match page's drone-image poller (one activation of its effect)

react == <<mapInstance, boundingBox, loading, animatedLayers, animationActive,
           animationProgress, currentAnimationStep, maskOverlay, originalMapView,
           isZoomedIn, workflowStep, heatmapData, heatmapOverlay, flightPathData,
           flightPathOverlay, currentView, terrainAnalysisComplete,
           heatmapComplete, hasAutoStarted>>

renderer == <<groundOverlays, rectangles, heatmapLayers, flightOverlays, camera>>

\* the inputs and results of the data-shape and geometry computations, and
\* the poller of the match page, which are checked apart from the workflow
\* (SpecCoordinates, SpecMask, SpecArea, SpecPoller): the workflow's actions
\* leave them alone
geometry == <<coordinates, heatmapPoints, pathCoordinates, mapBounds,
              maskRectangles, area, poller>>

vars == <<mounted, react, animationRef, renderer, timers, untracked, requests,
          runs, issued, geometry>>

\* ----------------------------------------------------------- helpers
Range(f) == {f[x] : x \in DOMAIN f}

\* a state setter called after unmount changes nothing
Set(old, new) == IF mounted THEN new ELSE old

\* the values a function created by a render reads
ClosureOf(m, al, mo, omv, z, ho, fo, hd) ==
  [mapInstance |-> m, animatedLayers |-> al, maskOverlay |-> mo,
   originalMapView |-> omv, isZoomedIn |-> z, heatmapOverlay |-> ho,
   flightPathOverlay |-> fo, heatmapData |-> hd]

Closure ==
  ClosureOf(mapInstance, animatedLayers, maskOverlay, originalMapView,
            isZoomedIn, heatmapOverlay, flightPathOverlay, heatmapData)

\* the part of a closure that generateAnimatedLayers, createMaskOverlay and
\* zoomToBoundingBox read
SegmentationClosure(cl) ==
  ClosureOf(cl.mapInstance, cl.animatedLayers, cl.maskOverlay,
            cl.originalMapView, cl.isZoomedIn, 0, 0, "null")

\* the part that startAnimation reads
AnimationClosure(layers) ==
  ClosureOf(FALSE, layers, NoMask, "null", FALSE, 0, 0, "null")

\* the part that generateHeatmapAndFlightPlan and displayHeatmap read
HeatmapClosure(cl) ==
  ClosureOf(cl.mapInstance, NoLayers, NoMask, "null", FALSE,
            cl.heatmapOverlay, 0, "null")

\* the part that generateFlightPath and displayFlightPath read
FlightPathClosure(cl) ==
  ClosureOf(cl.mapInstance, NoLayers, NoMask, "null", FALSE, 0,
            cl.flightPathOverlay, cl.heatmapData)

\* what is on the renderer: every overlay made so far and whether it is attached
OverlaySet ==
  [ground |-> [id \in DOMAIN groundOverlays |-> groundOverlays[id].map],
   mask |-> rectangles,
   heatmap |-> heatmapLayers,
   flightpath |-> flightOverlays]

\* the state of a mounted component and its renderer, the bounding box apart
InitWorkflow ==
  /\ mounted = TRUE
  /\ mapInstance = FALSE
  /\ loading = FALSE
  /\ animatedLayers = NoLayers
  /\ animationActive = FALSE
  /\ animationProgress = 0
  /\ currentAnimationStep = 0
  /\ maskOverlay = NoMask
  /\ originalMapView = "null"
  /\ isZoomedIn = FALSE
  /\ workflowStep = "segmentation"
  /\ heatmapData = "null"
  /\ heatmapOverlay = 0
  /\ flightPathData = "null"
  /\ flightPathOverlay = 0
  /\ currentView = "segmentation"
  /\ terrainAnalysisComplete = FALSE
  /\ heatmapComplete = FALSE
  /\ hasAutoStarted = FALSE
  /\ animationRef = [active |-> FALSE, timeouts |-> {}]
  /\ groundOverlays = [id \in {} |-> [map |-> FALSE, opacity |-> 0]]
  /\ rectangles = {}
  /\ heatmapLayers = [id \in {} |-> FALSE]
  /\ flightOverlays = [id \in {} |-> FALSE]
  /\ camera = "home"
  /\ timers = {}
  /\ untracked = {}
  /\ requests = {}
  /\ runs = << >>
  /\ issued = [segmentation |-> 0, heatmap |-> 0, flightpath |-> 0, masktoggle |-> 0]

\* the component once its mount effects have run, opened without URL
\* parameters
InitComponent == InitWorkflow /\ boundingBox = DefaultBox

\* the visible extent of the initial camera
DefaultBounds == [north |-> 3, south |-> 0, east |-> 3, west |-> 0]

\* displayHeatmap / displayFlightPath was not called
NotDisplayed == [called |-> FALSE, data |-> << >>]

Init ==
  /\ InitComponent
  /\ coordinates = << >>
  /\ heatmapPoints = NotDisplayed
  /\ pathCoordinates = NotDisplayed
  /\ mapBounds = DefaultBounds
  /\ maskRectangles = << >>
  /\ area = << >>
  /\ poller = NoPoller

\* ------------------------------------------------------- mask, viewport
\* createMaskOverlay: the rectangles on the map afterwards.  It returns early
\* without a map; otherwise it detaches the mask of its closure, returns if
\* mapInstance.getBounds() reports no bounds, and else attaches four new
\* rectangles (one handle, id).
MaskRectangles(cl, rects, id, bounds) ==
  IF ~cl.mapInstance THEN rects
  ELSE IF ~bounds THEN rects \ {cl.maskOverlay}
  ELSE (rects \ {cl.maskOverlay}) \cup {id}

\* createMaskOverlay: the value of maskOverlay afterwards
MaskState(cl, old, id, bounds) ==
  IF ~cl.mapInstance \/ ~bounds THEN old ELSE Set(old, id)

\* zoomToBoundingBox: the saved view afterwards (saved only when its closure
\* has no saved view and is not zoomed in)
SavedView(cl, old, cam) ==
  IF cl.originalMapView = "null" /\ ~cl.isZoomedIn THEN Set(old, cam) ELSE old

\* setTimeout(() => zoomToBoundingBox(), 500) fires
ZoomToBoundingBox(t) ==
  /\ t \in untracked
  /\ t.fn = "zoomToBoundingBox"
  /\ untracked' = untracked \ {t}
  /\ IF ~t.cl.mapInstance
     THEN UNCHANGED <<originalMapView, camera, isZoomedIn>>
     ELSE /\ originalMapView' = SavedView(t.cl, originalMapView, camera)
          /\ camera' = "box"
          /\ isZoomedIn' = Set(isZoomedIn, TRUE)
  /\ UNCHANGED <<mounted, mapInstance, boundingBox, loading, animatedLayers,
                 animationActive, animationProgress, currentAnimationStep,
                 maskOverlay, workflowStep, heatmapData, heatmapOverlay,
                 flightPathData, flightPathOverlay, currentView,
                 terrainAnalysisComplete, heatmapComplete, hasAutoStarted,
                 animationRef, groundOverlays, rectangles, heatmapLayers,
                 flightOverlays, timers, requests, runs, issued>>
  /\ UNCHANGED geometry

\* ------------------------------------------------------- segmentation
\* generateAnimatedLayers up to its await: the request is sent with the
\* closure of the render that created the function
GenerateAnimatedLayers(cl) ==
  /\ issued.segmentation < MaxSegRequests
  /\ loading' = Set(loading, TRUE)
  /\ issued' = [issued EXCEPT !.segmentation = @ + 1]
  /\ requests' = requests \cup
       {[kind |-> "segmentation", n |-> issued.segmentation + 1,
         cl |-> SegmentationClosure(cl),
         before |-> OverlaySet]}

\* the 'Generate Analysis' button is rendered (the third branch of the stage
\* action buttons) and can be clicked (the loading indicator covers the page)
GenerateAnalysisShown ==
  /\ mounted
  /\ ~loading
  /\ ~(terrainAnalysisComplete /\ heatmapData # "data")
  /\ ~(heatmapComplete /\ flightPathData = "null")
  /\ DOMAIN animatedLayers = {}

GenerateAnalysisClick ==
  /\ GenerateAnalysisShown
  /\ GenerateAnimatedLayers(Closure)
  /\ UNCHANGED <<mounted, mapInstance, boundingBox, animatedLayers,
                 animationActive, animationProgress, currentAnimationStep,
                 maskOverlay, originalMapView, isZoomedIn, workflowStep,
                 heatmapData, heatmapOverlay, flightPathData, flightPathOverlay,
                 currentView, terrainAnalysisComplete, heatmapComplete,
                 hasAutoStarted, animationRef, renderer, timers, untracked, runs>>
  /\ UNCHANGED geometry

\* the auto-start effect's setTimeout(() => generateAnimatedLayers(), 1000) fires
AutoStartSegmentation(t) ==
  /\ t \in untracked
  /\ t.fn = "generateAnimatedLayers"
  /\ untracked' = untracked \ {t}
  /\ GenerateAnimatedLayers(t.cl)
  /\ UNCHANGED <<mounted, mapInstance, boundingBox, animatedLayers,
                 animationActive, animationProgress, currentAnimationStep,
                 maskOverlay, originalMapView, isZoomedIn, workflowStep,
                 heatmapData, heatmapOverlay, flightPathData, flightPathOverlay,
                 currentView, terrainAnalysisComplete, heatmapComplete,
                 hasAutoStarted, animationRef, renderer, timers, runs>>
  /\ UNCHANGED geometry

\* initMap: the map is created; the auto-start effect ([mapInstance,
\* boundingBox]) then schedules the segmentation
MapReady ==
  /\ mounted
  /\ ~mapInstance
  /\ mapInstance' = TRUE
  /\ untracked' =
       IF ~loading /\ DOMAIN animatedLayers = {}
       THEN untracked \cup
              {[fn |-> "generateAnimatedLayers", n |-> 0,
                cl |-> SegmentationClosure(
                         [Closure EXCEPT !.mapInstance = TRUE])]}
       ELSE untracked
  /\ UNCHANGED <<mounted, boundingBox, loading, animatedLayers,
                 animationActive, animationProgress, currentAnimationStep,
                 maskOverlay, originalMapView, isZoomedIn, workflowStep,
                 heatmapData, heatmapOverlay, flightPathData, flightPathOverlay,
                 currentView, terrainAnalysisComplete, heatmapComplete,
                 hasAutoStarted, animationRef, renderer, timers, requests,
                 runs, issued>>
  /\ UNCHANGED geometry

\* an auto-start effect that does not look at hasAutoStarted
AutoStartsAnimation_EveryLayerSet(layers) ==
  mounted /\ DOMAIN layers # {} /\ ~animationActive

\* the auto-start animation effect ([animatedLayers, hasAutoStarted]) runs
\* for the layers just set
AutoStartsAnimation(layers) ==
  mounted /\ DOMAIN layers # {} /\ ~animationActive /\ ~hasAutoStarted

\* the segmentation request fails: a non-OK response or an exception
SegmentationFailure(q) ==
  /\ q \in requests
  /\ q.kind = "segmentation"
  /\ requests' = requests \ {q}
  /\ loading' = Set(loading, FALSE)
  /\ UNCHANGED <<mounted, mapInstance, boundingBox, animatedLayers,
                 animationActive, animationProgress, currentAnimationStep,
                 maskOverlay, originalMapView, isZoomedIn, workflowStep,
                 heatmapData, heatmapOverlay, flightPathData, flightPathOverlay,
                 currentView, terrainAnalysisComplete, heatmapComplete,
                 hasAutoStarted, animationRef, renderer, timers, untracked,
                 runs, issued>>
  /\ UNCHANGED geometry

\* the segmentation response is OK and carries the layers `names`
SegmentationResponse(q, names) ==
  /\ q \in requests
  /\ q.kind = "segmentation"
  /\ requests' = requests \ {q}
  /\ LET newLayers == [name \in names |-> <<q.n, name>>]
         detached == [id \in DOMAIN groundOverlays |->
                        IF id \in Range(q.cl.animatedLayers)
                        THEN [groundOverlays[id] EXCEPT !.map = FALSE]
                        ELSE groundOverlays[id]]
         mask == <<"segmentation", q.n>>
         auto == AutoStartsAnimation(newLayers)
     IN /\ groundOverlays' = detached @@
             [id \in Range(newLayers) |->
                [map |-> q.cl.mapInstance, opacity |-> 0]]
        /\ animatedLayers' = Set(animatedLayers, newLayers)
        /\ \E bounds \in BOOLEAN :
             /\ rectangles' = MaskRectangles(q.cl, rectangles, mask, bounds)
             /\ maskOverlay' = MaskState(q.cl, maskOverlay, mask, bounds)
        /\ hasAutoStarted' = (hasAutoStarted \/ auto)
        /\ untracked' = untracked
             \cup {[fn |-> "zoomToBoundingBox", n |-> q.n, cl |-> q.cl]}
             \cup (IF auto
                   THEN {[fn |-> "startAnimation", n |-> q.n,
                          cl |-> AnimationClosure(newLayers)]}
                   ELSE {})
  /\ loading' = Set(loading, FALSE)
  /\ UNCHANGED <<mounted, mapInstance, boundingBox, animationActive,
                 animationProgress, currentAnimationStep, originalMapView,
                 isZoomedIn, workflowStep, heatmapData, heatmapOverlay,
                 flightPathData, flightPathOverlay, currentView,
                 terrainAnalysisComplete, heatmapComplete, animationRef,
                 heatmapLayers, flightOverlays, camera, timers, runs, issued>>
  /\ UNCHANGED geometry

\* ---------------------------------------------------------- animation
Min(a, b) == IF a < b THEN a ELSE b

\* an animation that takes every layer it was given, in some fixed order
AvailableLayers_AnyName(layers) ==
  SelectSeq(layerOrder \o <<"other">>, LAMBDA l : l \in DOMAIN layers)

\* layerOrder.filter((layer) => animatedLayers[layer])
AvailableLayers(layers) == SelectSeq(layerOrder, LAMBDA l : l \in DOMAIN layers)

\* a startAnimation that leaves the earlier timeouts pending
PendingAfterClear_NoClear(pending, handles) == pending

\* timeouts.forEach(clearTimeout): the timeouts still pending afterwards
PendingAfterClear(pending, handles) == {t \in pending : t.id \notin handles}

\* the runs after every timeout was cleared: a run that was going on ends as
\* `how`; its locals are garbage from then on
EndRuns(rs, pending, how) ==
  [r \in DOMAIN rs |->
     IF rs[r].status = "running"
     THEN [rs[r] EXCEPT !.status = how, !.currentStep = 0, !.opacity = 0,
                        !.scheduled = 0,
                        !.cut = IF \E t \in pending : t.run = r /\ t.fn = "fadeIn"
                                THEN "fadeIn" ELSE "animateNextLayer"]
     ELSE rs[r]]

\* overlay.setOpacity(value) on every overlay of ids
WithOpacity(overlays, ids, value) ==
  [id \in DOMAIN overlays |->
     IF id \in ids THEN [overlays[id] EXCEPT !.opacity = value] ELSE overlays[id]]

\* ((currentStep + 1) / availableLayers.length) * 100, shown truncated
Progress(step, n) == (step * 100) \div n

\* a startAnimation that never takes the early return
NothingToAnimate_Never(availableLayers) == FALSE

\* if (availableLayers.length === 0) return
NothingToAnimate(availableLayers) == Len(availableLayers) = 0

\* startAnimation, called with the layers of the caller's closure
StartAnimation(layers) ==
  LET availableLayers == AvailableLayers(layers)
      r == Len(runs) + 1
      startTimeout == [id |-> <<r, 1>>, fn |-> "animateNextLayer", run |-> r]
  IN IF NothingToAnimate(availableLayers)
     THEN UNCHANGED <<timers, animationRef, animationActive,
                      currentAnimationStep, animationProgress, groundOverlays,
                      runs>>
     ELSE /\ Len(runs) < MaxRuns
          /\ timers' = PendingAfterClear(timers, animationRef.timeouts)
                         \cup {startTimeout}
          /\ animationRef' = [active |-> TRUE, timeouts |-> {startTimeout.id}]
          /\ animationActive' = Set(animationActive, TRUE)
          /\ currentAnimationStep' = Set(currentAnimationStep, 0)
          /\ animationProgress' = Set(animationProgress, 0)
          /\ groundOverlays' =
               WithOpacity(groundOverlays,
                           {layers[l] : l \in Range(availableLayers)}, 0)
          /\ runs' = Append(EndRuns(runs, timers, "superseded"),
                            [availableLayers |-> availableLayers,
                             handles |-> layers, currentStep |-> 0,
                             opacity |-> 0, scheduled |-> 1,
                             status |-> "running", fired |-> 0,
                             cut |-> "none"])

\* the auto-start effect's setTimeout(() => startAnimation(), 1500) fires
AutoStartAnimation(t) ==
  /\ t \in untracked
  /\ t.fn = "startAnimation"
  \* the 500 ms timeout set by the same continuation just before has fired
  /\ ~\E z \in untracked : z.fn = "zoomToBoundingBox" /\ z.n = t.n
  /\ untracked' = untracked \ {t}
  /\ StartAnimation(t.cl.animatedLayers)
  /\ UNCHANGED <<mounted, mapInstance, boundingBox, loading, animatedLayers,
                 maskOverlay, originalMapView, isZoomedIn, workflowStep,
                 heatmapData, heatmapOverlay, flightPathData, flightPathOverlay,
                 currentView, terrainAnalysisComplete, heatmapComplete,
                 hasAutoStarted, rectangles, heatmapLayers, flightOverlays,
                 camera, requests, issued>>
  /\ UNCHANGED geometry

\* a fade that hands over to the next layer after its first step
FadeComplete_FirstStep(opacity) == TRUE

\* if (opacity >= targetOpacity): the fade of this layer is complete
FadeComplete(opacity) == opacity >= TargetOpacity

\* a fadeIn that sets no further timeout
FadeInBody_NoReschedule(r, opacity, pending) ==
  /\ groundOverlays' =
       WithOpacity(groundOverlays,
                   {runs[r].handles[runs[r].availableLayers[runs[r].currentStep + 1]]},
                   Min(opacity + FadeStep, TargetOpacity))
  /\ runs' = [runs EXCEPT ![r].opacity = opacity + FadeStep]
  /\ timers' = pending
  /\ UNCHANGED animationRef

\* a fadeIn that keeps no handle of the timeout it sets
FadeInBody_Unrecorded(r, opacity, pending) ==
  LET run == runs[r]
      overlay == run.handles[run.availableLayers[run.currentStep + 1]]
      faded == opacity + FadeStep
      next == [id |-> <<r, run.scheduled + 1>>,
               fn |-> IF faded >= TargetOpacity THEN "animateNextLayer" ELSE "fadeIn",
               run |-> r]
  IN /\ groundOverlays' =
          WithOpacity(groundOverlays, {overlay}, Min(faded, TargetOpacity))
     /\ runs' = [runs EXCEPT
                   ![r].opacity = faded,
                   ![r].currentStep = IF faded >= TargetOpacity THEN @ + 1 ELSE @,
                   ![r].scheduled = @ + 1]
     /\ timers' = pending \cup {next}
     /\ UNCHANGED animationRef

\* the body of fadeIn for run r, whose local opacity is `opacity`, once its
\* entry check passed; `pending` are the timeouts pending without the one
\* that is running
FadeInBody(r, opacity, pending) ==
  LET run == runs[r]
      overlay == run.handles[run.availableLayers[run.currentStep + 1]]
      faded == opacity + FadeStep
      next == [id |-> <<r, run.scheduled + 1>>,
               fn |-> IF FadeComplete(faded) THEN "animateNextLayer" ELSE "fadeIn",
               run |-> r]
  IN /\ groundOverlays' =
          WithOpacity(groundOverlays, {overlay}, Min(faded, TargetOpacity))
     /\ runs' = [runs EXCEPT
                   ![r].opacity = faded,
                   ![r].currentStep = IF FadeComplete(faded) THEN @ + 1 ELSE @,
                   ![r].scheduled = @ + 1]
     /\ timers' = pending \cup {next}
     /\ animationRef' = [animationRef EXCEPT !.timeouts = @ \cup {next.id}]

\* setTimeout(fadeIn, fadeInterval) fires
FadeIn(t) ==
  /\ t \in timers
  /\ t.fn = "fadeIn"
  /\ IF ~animationRef.active
     THEN /\ timers' = timers \ {t}
          /\ UNCHANGED <<groundOverlays, runs, animationRef>>
     ELSE FadeInBody(t.run, runs[t.run].opacity, timers \ {t})
  /\ UNCHANGED <<mounted, react, rectangles, heatmapLayers, flightOverlays,
                 camera, untracked, requests, issued>>
  /\ UNCHANGED geometry

\* the completion check inverted
CompletionFires_Inverted(active) == ~active

\* if (animationRef.current.active) inside the end branch of animateNextLayer:
\* the run completed, it was not stopped
CompletionFires(active) == active

\* setTimeout(animateNextLayer, ...) fires
AnimateNextLayer(t) ==
  /\ t \in timers
  /\ t.fn = "animateNextLayer"
  /\ LET r == t.run
         run == runs[r]
         n == Len(run.availableLayers)
         ended == [runs EXCEPT ![r].status =
                     IF @ = "running" /\ run.currentStep >= n
                     THEN "natural" ELSE @]
     IN IF ~animationRef.active \/ run.currentStep >= n
        THEN /\ timers' = timers \ {t}
             /\ IF CompletionFires(animationRef.active)
                THEN /\ animationActive' = Set(animationActive, FALSE)
                     /\ animationRef' = [animationRef EXCEPT !.active = FALSE]
                     /\ terrainAnalysisComplete' =
                          Set(terrainAnalysisComplete, TRUE)
                     \* the [animationActive] effect
                     /\ currentAnimationStep' = Set(currentAnimationStep, 0)
                     /\ runs' = [ended EXCEPT ![r].fired = @ + 1]
                ELSE /\ runs' = ended
                     /\ UNCHANGED <<animationActive, animationRef,
                                    terrainAnalysisComplete,
                                    currentAnimationStep>>
             /\ UNCHANGED <<groundOverlays, animationProgress>>
        ELSE /\ currentAnimationStep' =
                  Set(currentAnimationStep, run.currentStep + 1)
             /\ animationProgress' =
                  Set(animationProgress, Progress(run.currentStep + 1, n))
             /\ FadeInBody(r, 0, timers \ {t})
             /\ UNCHANGED <<animationActive, terrainAnalysisComplete>>
  /\ UNCHANGED <<mounted, mapInstance, boundingBox, loading, animatedLayers,
                 maskOverlay, originalMapView, isZoomedIn, workflowStep,
                 heatmapData, heatmapOverlay, flightPathData, flightPathOverlay,
                 currentView, heatmapComplete, hasAutoStarted, rectangles,
                 heatmapLayers, flightOverlays, camera, untracked, requests,
                 issued>>
  /\ UNCHANGED geometry

\* the cleanup of the unmount effect; React then discards the component's
\* state, which no function reads any more (a function still to run reads
\* its closure, the ref and the renderer)
Unmount ==
  /\ mounted
  /\ mounted' = FALSE
  /\ timers' = PendingAfterClear(timers, animationRef.timeouts)
  /\ animationRef' = [active |-> FALSE, timeouts |-> {}]
  /\ runs' = EndRuns(runs, timers, "stopped")
  /\ mapInstance' = FALSE
  /\ loading' = FALSE
  /\ animatedLayers' = NoLayers
  /\ animationActive' = FALSE
  /\ animationProgress' = 0
  /\ currentAnimationStep' = 0
  /\ maskOverlay' = NoMask
  /\ originalMapView' = "null"
  /\ isZoomedIn' = FALSE
  /\ workflowStep' = "segmentation"
  /\ heatmapData' = "null"
  /\ heatmapOverlay' = 0
  /\ flightPathData' = "null"
  /\ flightPathOverlay' = 0
  /\ currentView' = "segmentation"
  /\ terrainAnalysisComplete' = FALSE
  /\ heatmapComplete' = FALSE
  /\ hasAutoStarted' = FALSE
  /\ UNCHANGED <<boundingBox, renderer, untracked, requests, issued>>
  /\ UNCHANGED geometry

\* ------------------------------------------------------------ heatmap
\* an overlay function with the handle id attached or detached; id 0 is null
Attach(overlays, id, on) ==
  IF id = 0 THEN overlays ELSE (id :> on) @@ overlays

\* a 'Continue to Heatmap' button that does not wait for the animation
ContinueToHeatmapShown_NoGate == mounted /\ heatmapData # "data" /\ ~loading

\* the 'Continue to Heatmap' button is rendered (first branch of the stage
\* action buttons) and enabled
ContinueToHeatmapShown ==
  mounted /\ terrainAnalysisComplete /\ heatmapData # "data" /\ ~loading

\* generateHeatmapAndFlightPlan up to its await
ContinueToHeatmapClick ==
  /\ ContinueToHeatmapShown
  /\ issued.heatmap < MaxHeatmapRequests
  /\ workflowStep' = "heatmap"
  /\ loading' = TRUE
  /\ issued' = [issued EXCEPT !.heatmap = @ + 1]
  /\ requests' = requests \cup
       {[kind |-> "heatmap", n |-> issued.heatmap + 1,
         cl |-> HeatmapClosure(Closure),
         before |-> OverlaySet]}
  /\ UNCHANGED <<mounted, mapInstance, boundingBox, animatedLayers,
                 animationActive, animationProgress, currentAnimationStep,
                 maskOverlay, originalMapView, isZoomedIn, heatmapData,
                 heatmapOverlay, flightPathData, flightPathOverlay, currentView,
                 terrainAnalysisComplete, heatmapComplete, hasAutoStarted,
                 animationRef, renderer, timers, untracked, runs>>
  /\ UNCHANGED geometry

\* catch { setWorkflowStep("segmentation") } finally { setLoading(false) }
HeatmapFailure(q) ==
  /\ q \in requests
  /\ q.kind = "heatmap"
  /\ requests' = requests \ {q}
  /\ workflowStep' = Set(workflowStep, "segmentation")
  /\ loading' = Set(loading, FALSE)
  /\ UNCHANGED <<mounted, mapInstance, boundingBox, animatedLayers,
                 animationActive, animationProgress, currentAnimationStep,
                 maskOverlay, originalMapView, isZoomedIn, heatmapData,
                 heatmapOverlay, flightPathData, flightPathOverlay, currentView,
                 terrainAnalysisComplete, heatmapComplete, hasAutoStarted,
                 animationRef, renderer, timers, untracked, runs, issued>>
  /\ UNCHANGED geometry

\* displayHeatmap: the heatmap layers on the renderer afterwards
DisplayedHeatmap(cl, layers, id) ==
  IF ~cl.mapInstance THEN layers
  ELSE Attach(Attach(layers, cl.heatmapOverlay, FALSE), id, TRUE)

\* the response is OK; data.heatmap_data is there ("data") or not ("missing")
HeatmapResponse(q, data) ==
  /\ q \in requests
  /\ q.kind = "heatmap"
  /\ requests' = requests \ {q}
  /\ heatmapData' = Set(heatmapData, data)
  /\ IF data = "data"
     THEN /\ heatmapLayers' = DisplayedHeatmap(q.cl, heatmapLayers, q.n)
          /\ heatmapOverlay' =
               IF q.cl.mapInstance THEN Set(heatmapOverlay, q.n)
               ELSE heatmapOverlay
          /\ currentView' = Set(currentView, "heatmap")
          /\ heatmapComplete' = Set(heatmapComplete, TRUE)
          /\ workflowStep' = Set(workflowStep, "heatmap")
     ELSE UNCHANGED <<heatmapLayers, heatmapOverlay, currentView,
                      heatmapComplete, workflowStep>>
  /\ loading' = Set(loading, FALSE)
  /\ UNCHANGED <<mounted, mapInstance, boundingBox, animatedLayers,
                 animationActive, animationProgress, currentAnimationStep,
                 maskOverlay, originalMapView, isZoomedIn, flightPathData,
                 flightPathOverlay, terrainAnalysisComplete, hasAutoStarted,
                 animationRef, groundOverlays, rectangles, flightOverlays,
                 camera, timers, untracked, runs, issued>>
  /\ UNCHANGED geometry

\* -------------------------------------------------------- flight path
\* the 'Generate Flight Path' button is rendered (second branch) and enabled
GenerateFlightPathShown ==
  /\ mounted
  /\ ~(terrainAnalysisComplete /\ heatmapData # "data")
  /\ heatmapComplete
  /\ flightPathData = "null"
  /\ ~loading

\* generateFlightPath up to its await
GenerateFlightPathClick ==
  /\ GenerateFlightPathShown
  /\ heatmapData = "data"
  /\ issued.flightpath < MaxFlightRequests
  /\ workflowStep' = "flightpath"
  /\ loading' = TRUE
  /\ issued' = [issued EXCEPT !.flightpath = @ + 1]
  /\ requests' = requests \cup
       {[kind |-> "flightpath", n |-> issued.flightpath + 1,
         cl |-> FlightPathClosure(Closure),
         before |-> OverlaySet]}
  /\ UNCHANGED <<mounted, mapInstance, boundingBox, animatedLayers,
                 animationActive, animationProgress, currentAnimationStep,
                 maskOverlay, originalMapView, isZoomedIn, heatmapData,
                 heatmapOverlay, flightPathData, flightPathOverlay, currentView,
                 terrainAnalysisComplete, heatmapComplete, hasAutoStarted,
                 animationRef, renderer, timers, untracked, runs>>
  /\ UNCHANGED geometry

\* catch { setWorkflowStep("heatmap") } finally { setLoading(false) }
FlightPathFailure(q) ==
  /\ q \in requests
  /\ q.kind = "flightpath"
  /\ requests' = requests \ {q}
  /\ workflowStep' = Set(workflowStep, "heatmap")
  /\ loading' = Set(loading, FALSE)
  /\ UNCHANGED <<mounted, mapInstance, boundingBox, animatedLayers,
                 animationActive, animationProgress, currentAnimationStep,
                 maskOverlay, originalMapView, isZoomedIn, heatmapData,
                 heatmapOverlay, flightPathData, flightPathOverlay, currentView,
                 terrainAnalysisComplete, heatmapComplete, hasAutoStarted,
                 animationRef, renderer, timers, untracked, runs, issued>>
  /\ UNCHANGED geometry

\* the stage after an OK flight-plan response: 'complete' when flight_path
\* has waypoints, otherwise the else branch (an alert) leaves it as it is
StepAfterFlightPlan(step, data) ==
  IF data \in {"path", "dropped"} THEN Set(step, "complete") ELSE step

\* displayFlightPath: the path overlays on the renderer afterwards.  It
\* returns early without a map; otherwise it detaches the overlays of its
\* closure and, unless every waypoint was dropped as invalid, attaches the
\* polyline and its markers (one handle, id).
DisplayedFlightPath(cl, overlays, id, data) ==
  IF ~cl.mapInstance THEN overlays
  ELSE IF data = "dropped" THEN Attach(overlays, cl.flightPathOverlay, FALSE)
  ELSE Attach(Attach(overlays, cl.flightPathOverlay, FALSE), id, TRUE)

\* the response is OK; flight_path has waypoints of which some are valid
\* ("path") or all are out of range ("dropped"), or it is empty or missing
\* ("empty")
FlightPathResponse(q, data) ==
  /\ q \in requests
  /\ q.kind = "flightpath"
  /\ requests' = requests \ {q}
  /\ flightPathData' = Set(flightPathData, data)
  /\ workflowStep' = StepAfterFlightPlan(workflowStep, data)
  /\ IF data \in {"path", "dropped"}
     THEN /\ flightOverlays' =
               DisplayedFlightPath(q.cl, flightOverlays, q.n, data)
          /\ flightPathOverlay' =
               IF q.cl.mapInstance /\ data = "path"
               THEN Set(flightPathOverlay, q.n)
               ELSE flightPathOverlay
          /\ currentView' = Set(currentView, "flightpath")
     ELSE UNCHANGED <<flightOverlays, flightPathOverlay, currentView>>
  /\ loading' = Set(loading, FALSE)
  /\ UNCHANGED <<mounted, mapInstance, boundingBox, animatedLayers,
                 animationActive, animationProgress, currentAnimationStep,
                 maskOverlay, originalMapView, isZoomedIn, heatmapData,
                 heatmapOverlay, terrainAnalysisComplete, heatmapComplete,
                 hasAutoStarted, animationRef, groundOverlays, rectangles,
                 heatmapLayers, camera, timers, untracked, runs, issued>>
  /\ UNCHANGED geometry

\* ------------------------------------------------------ view switches
\* overlay.setMap(on ? mapInstance : null) on every tracked segmentation layer
SegmentationLayersShown(overlays, layers, on) ==
  [id \in DOMAIN overlays |->
     IF id \in Range(layers) THEN [overlays[id] EXCEPT !.map = on]
     ELSE overlays[id]]

\* overlay.setMap(mapInstance), guarded by `overlay && mapInstance`
Shown(overlays, id, map) ==
  IF map THEN Attach(overlays, id, TRUE) ELSE overlays

\* what switchToHeatmapView leaves of the flight-path overlays: it does not
\* touch them
FlightPathAfterHeatmapView(overlays, id) == overlays

\* what switchToSegmentationView leaves of the flight-path overlays: it does
\* not touch them
FlightPathAfterSegmentationView(overlays, id) == overlays

\* the header with the two arrow buttons is rendered and can be clicked
HeaderShown ==
  /\ mounted
  /\ ~loading
  /\ workflowStep = "complete"
  /\ terrainAnalysisComplete
  /\ heatmapData = "data"

\* the three view navigation buttons are rendered and can be clicked
ViewNavigationShown ==
  /\ mounted
  /\ ~loading
  /\ workflowStep = "complete"
  /\ heatmapData = "data"
  /\ flightPathData # "null"

viewFrame == <<mounted, mapInstance, boundingBox, loading, animatedLayers,
               animationActive, animationProgress, currentAnimationStep,
               maskOverlay, originalMapView, isZoomedIn, workflowStep,
               heatmapData, heatmapOverlay, flightPathData, flightPathOverlay,
               terrainAnalysisComplete, heatmapComplete, hasAutoStarted,
               animationRef, rectangles, camera, timers, untracked, requests,
               runs, issued, geometry>>

\* the header's left arrow
SwitchToSegmentationView ==
  /\ HeaderShown
  /\ currentView # "segmentation"
  /\ heatmapLayers' = Attach(heatmapLayers, heatmapOverlay, FALSE)
  /\ flightOverlays' =
       FlightPathAfterSegmentationView(flightOverlays, flightPathOverlay)
  /\ groundOverlays' =
       SegmentationLayersShown(groundOverlays, animatedLayers, mapInstance)
  /\ currentView' = "segmentation"
  /\ UNCHANGED viewFrame

\* the header's right arrow
SwitchToHeatmapView ==
  /\ HeaderShown
  /\ currentView # "heatmap"
  /\ groundOverlays' =
       SegmentationLayersShown(groundOverlays, animatedLayers, FALSE)
  /\ flightOverlays' =
       FlightPathAfterHeatmapView(flightOverlays, flightPathOverlay)
  /\ heatmapLayers' = Shown(heatmapLayers, heatmapOverlay, mapInstance)
  /\ currentView' = "heatmap"
  /\ UNCHANGED viewFrame

\* the 'Terrain' button
SwitchToSegmentationViewUpdated ==
  /\ ViewNavigationShown
  /\ heatmapLayers' = Attach(heatmapLayers, heatmapOverlay, FALSE)
  /\ flightOverlays' = Attach(flightOverlays, flightPathOverlay, FALSE)
  /\ groundOverlays' =
       SegmentationLayersShown(groundOverlays, animatedLayers, mapInstance)
  /\ currentView' = "segmentation"
  /\ UNCHANGED viewFrame

\* the 'Heatmap' button
SwitchToHeatmapViewUpdated ==
  /\ ViewNavigationShown
  /\ groundOverlays' =
       SegmentationLayersShown(groundOverlays, animatedLayers, FALSE)
  /\ flightOverlays' = Attach(flightOverlays, flightPathOverlay, FALSE)
  /\ heatmapLayers' = Shown(heatmapLayers, heatmapOverlay, mapInstance)
  /\ currentView' = "heatmap"
  /\ UNCHANGED viewFrame

\* the 'Flight Path' button
SwitchToFlightPathView ==
  /\ ViewNavigationShown
  /\ groundOverlays' =
       SegmentationLayersShown(groundOverlays, animatedLayers, FALSE)
  /\ heatmapLayers' = Attach(heatmapLayers, heatmapOverlay, FALSE)
  /\ flightOverlays' = Shown(flightOverlays, flightPathOverlay, mapInstance)
  /\ currentView' = "flightpath"
  /\ UNCHANGED viewFrame

\* the 'Add / Remove Focus Mask' button
ToggleMask ==
  /\ mounted
  /\ ~loading
  /\ DOMAIN animatedLayers # {}
  /\ IF maskOverlay # NoMask
     THEN /\ rectangles' = rectangles \ {maskOverlay}
          /\ maskOverlay' = NoMask
          /\ UNCHANGED issued
     ELSE /\ issued.masktoggle < MaxMaskToggles
          /\ LET id == <<"toggle", issued.masktoggle + 1>>
             IN \E bounds \in BOOLEAN :
                  /\ rectangles' = MaskRectangles(Closure, rectangles, id, bounds)
                  /\ maskOverlay' = MaskState(Closure, maskOverlay, id, bounds)
          /\ issued' = [issued EXCEPT !.masktoggle = @ + 1]
  /\ UNCHANGED <<mounted, mapInstance, boundingBox, loading, animatedLayers,
                 animationActive, animationProgress, currentAnimationStep,
                 originalMapView, isZoomedIn, workflowStep, heatmapData,
                 heatmapOverlay, flightPathData, flightPathOverlay, currentView,
                 terrainAnalysisComplete, heatmapComplete, hasAutoStarted,
                 animationRef, groundOverlays, heatmapLayers, flightOverlays,
                 camera, timers, untracked, requests, runs>>
  /\ UNCHANGED geometry

\* ------------------------------------------- operations without a button
\* startAnimation, stopAnimation and clearAllLayers called directly, with the
\* closure of the current render

opsFrame == <<mounted, mapInstance, boundingBox, loading, originalMapView,
              isZoomedIn, workflowStep, heatmapData, heatmapOverlay,
              flightPathData, flightPathOverlay, currentView,
              terrainAnalysisComplete, heatmapComplete, heatmapLayers,
              flightOverlays, camera, untracked, requests, issued, geometry>>

StartAnimationCall ==
  /\ mounted
  /\ StartAnimation(animatedLayers)
  /\ UNCHANGED <<opsFrame, animatedLayers, hasAutoStarted, maskOverlay,
                 rectangles>>

\* a stopAnimation that updates the component's state and the opacities but
\* leaves the engine running: the timeouts pending and the ref active
StopAnimation_UiOnly ==
  /\ mounted
  /\ animationActive' = FALSE
  /\ currentAnimationStep' = 0
  /\ groundOverlays' =
       WithOpacity(groundOverlays, Range(animatedLayers), StopOpacity)
  /\ runs' = [r \in DOMAIN runs |->
                IF runs[r].status = "running"
                THEN [runs[r] EXCEPT !.status = "stopped", !.cut = "fadeIn"]
                ELSE runs[r]]
  /\ UNCHANGED <<opsFrame, animatedLayers, hasAutoStarted, maskOverlay,
                 rectangles, animationProgress, timers, animationRef>>

StopAnimation ==
  /\ mounted
  /\ timers' = PendingAfterClear(timers, animationRef.timeouts)
  /\ animationRef' = [active |-> FALSE, timeouts |-> {}]
  /\ animationActive' = FALSE
  /\ currentAnimationStep' = 0
  /\ groundOverlays' =
       WithOpacity(groundOverlays, Range(animatedLayers), StopOpacity)
  /\ runs' = EndRuns(runs, timers, "stopped")
  /\ UNCHANGED <<opsFrame, animatedLayers, hasAutoStarted, maskOverlay,
                 rectangles, animationProgress>>

ClearAllLayers ==
  /\ mounted
  /\ timers' = PendingAfterClear(timers, animationRef.timeouts)
  /\ animationRef' = [active |-> FALSE, timeouts |-> {}]
  /\ animationActive' = FALSE
  /\ currentAnimationStep' = 0
  /\ groundOverlays' =
       SegmentationLayersShown(groundOverlays, animatedLayers, FALSE)
  /\ animatedLayers' = NoLayers
  /\ rectangles' = rectangles \ {maskOverlay}
  /\ maskOverlay' = NoMask
  /\ runs' = EndRuns(runs, timers, "stopped")
  /\ UNCHANGED <<opsFrame, hasAutoStarted, animationProgress>>

Next ==
  \/ MapReady
  \/ GenerateAnalysisClick
  \/ \E t \in untracked : AutoStartSegmentation(t)
  \/ \E q \in requests : SegmentationFailure(q)
  \/ \E q \in requests, names \in ResponseLayers : SegmentationResponse(q, names)
  \/ \E t \in untracked : ZoomToBoundingBox(t)
  \/ \E t \in untracked : AutoStartAnimation(t)
  \/ \E t \in timers : AnimateNextLayer(t)
  \/ \E t \in timers : FadeIn(t)
  \/ ContinueToHeatmapClick
  \/ \E q \in requests : HeatmapFailure(q)
  \/ \E q \in requests, data \in {"data", "missing"} : HeatmapResponse(q, data)
  \/ GenerateFlightPathClick
  \/ \E q \in requests : FlightPathFailure(q)
  \/ \E q \in requests, data \in {"path", "dropped", "empty"} :
       FlightPathResponse(q, data)
  \/ SwitchToSegmentationView
  \/ SwitchToHeatmapView
  \/ SwitchToSegmentationViewUpdated
  \/ SwitchToHeatmapViewUpdated
  \/ SwitchToFlightPathView
  \/ ToggleMask
  \/ Unmount

Spec == Init /\ [][Next]_vars

\* The animation engine with its operations also called directly, on the
\* layers of the automatic segmentation (the component defines stopAnimation
\* and clearAllLayers but renders no button for them).  The flight-path, view
\* and mask actions neither read nor write what the engine, the segmentation
\* and the heatmap trigger read, and are left out, as is the 'Generate
\* Analysis' button, whose second request Spec covers.
NextOps ==
  \/ MapReady
  \/ \E t \in untracked : AutoStartSegmentation(t)
  \/ \E q \in requests : SegmentationFailure(q)
  \/ \E q \in requests, names \in ResponseLayers : SegmentationResponse(q, names)
  \/ \E t \in untracked : ZoomToBoundingBox(t)
  \/ \E t \in untracked : AutoStartAnimation(t)
  \/ \E t \in timers : AnimateNextLayer(t)
  \/ \E t \in timers : FadeIn(t)
  \/ ContinueToHeatmapClick
  \/ \E q \in requests : HeatmapFailure(q)
  \/ \E q \in requests, data \in {"data", "missing"} : HeatmapResponse(q, data)
  \/ StartAnimationCall
  \/ StopAnimation
  \/ ClearAllLayers
  \/ Unmount

SpecOps == Init /\ [][NextOps]_vars

\* ------------------------------------------- coordinate normalisation
\* A JavaScript value that may be undefined: << >> is undefined, <<v>> the
\* number v.
Undefined == << >>

\* the values that || treats as false: undefined and 0
Falsy(v) == v = Undefined \/ v = <<0>>

\* a || b
Or(a, b) == IF Falsy(a) THEN b ELSE a

\* a < b and a > b with a possibly undefined: a comparison with undefined
\* (NaN) is false
Less(a, b) == a # Undefined /\ a[1] < b
Greater(a, b) == a # Undefined /\ a[1] > b

\* if (lat < -90 || lat > 90 || lng < -180 || lng > 180) return null
OutOfRange(lat, lng) ==
  Less(lat, -90) \/ Greater(lat, 90) \/ Less(lng, -180) \/ Greater(lng, 180)

\* displayHeatmap: heatmapData.coordinates.map(...).filter(point => point !== null)
HeatmapPointsOf(coords) ==
  LET located == [i \in DOMAIN coords |->
                    [lat |-> Or(coords[i].y, coords[i].lat),
                     lng |-> Or(coords[i].x, coords[i].lng)]]
  IN SelectSeq(located, LAMBDA point : ~OutOfRange(point.lat, point.lng))

\* displayFlightPath: flight_path.map(...).filter(coord => coord !== null)
PathCoordinatesOf(path) ==
  LET located == [i \in DOMAIN path |->
                    [lat |-> Or(path[i].y, path[i].lat),
                     lng |-> Or(Or(path[i].x, path[i].lng), path[i].lon)]]
  IN SelectSeq(located, LAMBDA coord : ~OutOfRange(coord.lat, coord.lng))

\* a point of a response written with the keys x, y and with the keys lng, lat
XY(lng, lat) ==
  [x |-> lng, y |-> lat, lng |-> Undefined, lat |-> Undefined, lon |-> Undefined]
LngLat(lng, lat) ==
  [x |-> Undefined, y |-> Undefined, lng |-> lng, lat |-> lat, lon |-> Undefined]

\* the coordinates tried: on and off the equator and the prime meridian, on
\* and beyond the limits, and missing
LatValues == {-91, 0, 45, 90}
LngValues == {-181, 0, 100, 180}
Optional(values) == {Undefined} \cup {<<v>> : v \in values}
Points ==
  {XY(lng, lat) : lng \in Optional(LngValues), lat \in Optional(LatValues)}
    \cup {LngLat(lng, lat) : lng \in Optional(LngValues), lat \in Optional(LatValues)}

\* a response with two points is to be displayed
InitCoordinates ==
  /\ InitComponent
  /\ coordinates \in {<<p, q>> : p \in Points, q \in Points}
  /\ heatmapPoints = NotDisplayed
  /\ pathCoordinates = NotDisplayed
  /\ mapBounds = DefaultBounds
  /\ maskRectangles = << >>
  /\ area = << >>
  /\ poller = NoPoller

coordinatesFrame == <<mounted, react, animationRef, renderer, timers, untracked,
                      requests, runs, issued, coordinates, mapBounds,
                      maskRectangles, area, poller>>

\* displayHeatmap(heatmapData) with heatmapData.coordinates = coordinates
DisplayHeatmap ==
  /\ mapInstance
  /\ ~heatmapPoints.called
  /\ heatmapPoints' = [called |-> TRUE, data |-> HeatmapPointsOf(coordinates)]
  /\ UNCHANGED <<coordinatesFrame, pathCoordinates>>

\* displayFlightPath(flightPlanData) with flight_path = coordinates
DisplayFlightPath ==
  /\ mapInstance
  /\ ~pathCoordinates.called
  /\ pathCoordinates' = [called |-> TRUE, data |-> PathCoordinatesOf(coordinates)]
  /\ UNCHANGED <<coordinatesFrame, heatmapPoints>>

NextCoordinates == MapReady \/ DisplayHeatmap \/ DisplayFlightPath

SpecCoordinates == InitCoordinates /\ [][NextCoordinates]_vars

\* ------------------------------------------------------ mask geometry
\* createMaskOverlay: the bounds of the top, bottom, left and right
\* rectangles for the bounding box and the visible extent (ne, sw)
MaskBounds(box, bounds) ==
  << [north |-> bounds.north, south |-> box.north,
      east |-> bounds.east, west |-> bounds.west],
     [north |-> box.south, south |-> bounds.south,
      east |-> bounds.east, west |-> bounds.west],
     [north |-> box.north, south |-> box.south,
      east |-> box.west, west |-> bounds.west],
     [north |-> box.north, south |-> box.south,
      east |-> bounds.east, west |-> box.east] >>

\* the visible extents tried: every rectangle of the grid
Extents ==
  [north : 0..GridSize, south : 0..GridSize,
   east : 0..GridSize, west : 0..GridSize]

VisibleExtents == {b \in Extents : b.north > b.south /\ b.east > b.west}

\* the camera is anywhere when the mask is to be drawn
InitMask ==
  /\ InitComponent
  /\ coordinates = << >>
  /\ heatmapPoints = NotDisplayed
  /\ pathCoordinates = NotDisplayed
  /\ mapBounds \in VisibleExtents
  /\ maskRectangles = << >>
  /\ area = << >>
  /\ poller = NoPoller

\* createMaskOverlay, the rectangles it builds
CreateMaskOverlay ==
  /\ mapInstance
  /\ maskRectangles = << >>
  /\ maskRectangles' = MaskBounds(boundingBox, mapBounds)
  /\ UNCHANGED <<mounted, react, animationRef, renderer, timers, untracked,
                 requests, runs, issued, coordinates, heatmapPoints,
                 pathCoordinates, mapBounds, area, poller>>

NextMask == MapReady \/ CreateMaskOverlay

SpecMask == InitMask /\ [][NextMask]_vars

\* ---------------------------------------------------- saved viewport
\* zoomToOriginalView and resetToDefaultView, called with the closure of the
\* current render (the component defines them but renders no button for
\* them), on the viewport that the segmentation's zoom has moved

restoreFrame == <<mounted, mapInstance, boundingBox, loading, animatedLayers,
                  animationActive, animationProgress, currentAnimationStep,
                  maskOverlay, workflowStep, heatmapData, heatmapOverlay,
                  flightPathData, flightPathOverlay, currentView,
                  terrainAnalysisComplete, heatmapComplete, hasAutoStarted,
                  animationRef, groundOverlays, rectangles, heatmapLayers,
                  flightOverlays, timers, untracked, requests, runs, issued,
                  geometry>>

\* a zoomToOriginalView that forgets the saved view once it has restored it
SavedViewAfterRestore_Cleared(view) == "null"

\* zoomToOriginalView: the saved view afterwards (it calls no
\* setOriginalMapView)
SavedViewAfterRestore(view) == view

ZoomToOriginalView ==
  /\ mounted
  /\ IF ~mapInstance \/ originalMapView = "null"
     THEN UNCHANGED <<camera, isZoomedIn, originalMapView>>
     ELSE /\ camera' = originalMapView
          /\ isZoomedIn' = FALSE
          /\ originalMapView' = SavedViewAfterRestore(originalMapView)
  /\ UNCHANGED restoreFrame

ResetToDefaultView ==
  /\ mounted
  /\ IF ~mapInstance
     THEN UNCHANGED <<camera, isZoomedIn, originalMapView>>
     ELSE /\ camera' = "home"
          /\ originalMapView' = "null"
          /\ isZoomedIn' = FALSE
  /\ UNCHANGED restoreFrame

NextView ==
  \/ MapReady
  \/ GenerateAnalysisClick
  \/ \E t \in untracked : AutoStartSegmentation(t)
  \/ \E q \in requests : SegmentationFailure(q)
  \/ \E q \in requests, names \in ResponseLayers : SegmentationResponse(q, names)
  \/ \E t \in untracked : ZoomToBoundingBox(t)
  \/ ZoomToOriginalView
  \/ ResetToDefaultView
  \/ Unmount

SpecView == Init /\ [][NextView]_vars

\* ------------------------------------------------- URL parameters
\* The bounding box of the URL parameter effect.  A parameter is << >> when
\* searchParams.get returns null and <<text>> otherwise; a number is <<v>>
\* and NaN is << >>.  Coordinates are counted in units of the centre
\* branch's latitude offset, 10 / (2 * 111) degrees.
NaN == << >>

ParseFloat(text) ==
  CASE text = "0" -> <<0>>
    [] text = "1" -> <<1>>
    [] text = "2" -> <<2>>
    [] OTHER -> NaN

\* a string is truthy when it is neither null nor empty
Truthy(param) == param # << >> /\ param # <<"">>

\* a + b and a - b, NaN when an operand is
Plus(a, b) == IF a = NaN \/ b = NaN THEN NaN ELSE <<a[1] + b[1]>>
Minus(a, b) == IF a = NaN \/ b = NaN THEN NaN ELSE <<a[1] - b[1]>>

LatOffset == <<1>>

\* 10 / (2 * 111 * Math.cos(lat * Math.PI / 180)), for a centre on the
\* equator, where the cosine is 1
LngOffset(lat) == IF lat = NaN THEN NaN ELSE <<1>>

\* the literal box of the effect's last branch
DefaultBbox ==
  [north |-> <<DefaultBox.north>>, south |-> <<DefaultBox.south>>,
   east |-> <<DefaultBox.east>>, west |-> <<DefaultBox.west>>]

\* the box the effect passes to setBoundingBox
UrlBox(p) ==
  IF Truthy(p.lat) /\ Truthy(p.lng)
  THEN LET lat == ParseFloat(p.lat[1])
           lng == ParseFloat(p.lng[1])
       IN [north |-> Plus(lat, LatOffset), south |-> Minus(lat, LatOffset),
           east |-> Plus(lng, LngOffset(lat)),
           west |-> Minus(lng, LngOffset(lat))]
  ELSE IF Truthy(p.north) /\ Truthy(p.south) /\ Truthy(p.east) /\ Truthy(p.west)
  THEN [north |-> ParseFloat(p.north[1]), south |-> ParseFloat(p.south[1]),
        east |-> ParseFloat(p.east[1]), west |-> ParseFloat(p.west[1])]
  ELSE DefaultBbox

\* the URLs tried: each parameter absent, empty, not a number or a number
Param(texts) == {<< >>} \cup {<<t>> : t \in texts}

SearchParams ==
  [north : Param({"", "abc", "1", "2"}), south : Param({"abc", "1", "2"}),
   east : Param({"1", "2"}), west : Param({"1", "2"}),
   lat : Param({"abc", "0"}), lng : Param({"0"})]

\* the page is opened with some URL; the effect has set the bounding box
InitUrl ==
  /\ InitWorkflow
  /\ boundingBox \in {UrlBox(p) : p \in SearchParams}
  /\ coordinates = << >>
  /\ heatmapPoints = NotDisplayed
  /\ pathCoordinates = NotDisplayed
  /\ mapBounds = DefaultBounds
  /\ maskRectangles = << >>
  /\ area = << >>
  /\ poller = NoPoller

NextUrl ==
  \/ MapReady
  \/ GenerateAnalysisClick
  \/ \E t \in untracked : AutoStartSegmentation(t)
  \/ \E q \in requests : SegmentationFailure(q)
  \/ \E q \in requests, names \in ResponseLayers : SegmentationResponse(q, names)
  \/ \E t \in untracked : ZoomToBoundingBox(t)
  \/ Unmount

SpecUrl == InitUrl /\ [][NextUrl]_vars

\* ------------------------------------------------------------- area
\* The box around a centre and calculateArea, in fixed point: degrees in
\* ten-thousandths, radians in millionths, cosines in ten-thousandths, the
\* area in hundredths of a square kilometre.  The trigonometric functions
\* are their Taylor polynomials, exact to the last digit kept for the angles
\* that occur (latitudes up to 60 degrees, differences of a fifth of a
\* degree).
R == 6371

Abs(x) == IF x < 0 THEN 0 - x ELSE x

\* (degrees * Math.PI) / 180
ToRadians(d) == (d * 349) \div 200

\* Math.cos of an angle up to 1.1 rad
Cos(x) ==
  LET y == x \div 100
      y2 == (y * y) \div 10000
  IN 10000 - y2 \div 2 + (y2 * y2) \div 240000
       - (((y2 * y2) \div 10000) * y2) \div 7200000

\* Math.sin of an angle of a few thousandths of a radian
Sin(x) ==
  LET cube == (((x * x) \div 1000000) * Abs(x)) \div 6000000
  IN IF x < 0 THEN x + cube ELSE x - cube

\* Math.sqrt of a number given in units of 10^-12, in millionths
Sqrt(n) == CHOOSE r \in 0..3000 : r * r <= n /\ n < (r + 1) * (r + 1)

\* Math.atan2(s, Math.sqrt(1 - s * s)), the arc sine of s, for a small s
Atan2(s) == s + (((s * s) \div 1000000) * s) \div 6000000

\* the URL parameter effect's box around the centre lat, lng
BoxAround(lat, lng) ==
  LET latOffset == 100000 \div (2 * 111)
      lngOffset == 1000000000 \div (2 * 111 * Cos(ToRadians(lat)))
  IN [north |-> lat + latOffset, south |-> lat - latOffset,
      east |-> lng + lngOffset, west |-> lng - lngOffset]

calculateArea(bounds) ==
  LET lat1 == ToRadians(bounds.north)
      lat2 == ToRadians(bounds.south)
      deltaLat == ToRadians(bounds.south - bounds.north)
      deltaLon == ToRadians(bounds.east - bounds.west)
      sinLat == Sin(deltaLat \div 2)
      sinLon == Sin(deltaLon \div 2)
      a == sinLat * sinLat
             + (((((sinLon * sinLon) \div 100) * Cos(lat1)) \div 10000)
                  * Cos(lat2)) \div 100
      c == 2 * Atan2(Sqrt(a))
      \* R * c in metres, |east - west| / 360 * 40075 in metres
      distance == (R * c) \div 1000
      width == (Abs(bounds.east - bounds.west) * 40075) \div 3600
  IN (distance * width) \div 10000

\* the centres tried
CenterLats == {-403400, 0, 200000, 403400, 600000}
CenterLngs == {-1790000, -746600, 0, 23500, 1000000, 1790000}

\* the page is opened with ?lat=..&lng=..; the effect has set the box
InitArea ==
  /\ InitWorkflow
  /\ boundingBox \in {BoxAround(lat, lng) : lat \in CenterLats, lng \in CenterLngs}
  /\ coordinates = << >>
  /\ heatmapPoints = NotDisplayed
  /\ pathCoordinates = NotDisplayed
  /\ mapBounds = DefaultBounds
  /\ maskRectangles = << >>
  /\ area = << >>
  /\ poller = NoPoller

\* the panel renders "Area: {calculateArea(boundingBox).toFixed(1)} km2"
RenderArea ==
  /\ mounted
  /\ area = << >>
  /\ area' = <<calculateArea(boundingBox)>>
  /\ UNCHANGED <<mounted, react, animationRef, renderer, timers, untracked,
                 requests, runs, issued, coordinates, heatmapPoints,
                 pathCoordinates, mapBounds, maskRectangles, poller>>

NextArea == MapReady \/ RenderArea

SpecArea == InitArea /\ [][NextArea]_vars

\* ------------------------------------------------- timers that fire
\* The segmentation and its animation with no teardown, every pending
\* timeout firing in the end: the browser runs a timeout that stays pending.
\* the request bound leaves room for every segmentation timer still pending, so
\* that no timer callback is held back by the bound
TimersCanSend ==
  issued.segmentation
    + Cardinality({t \in untracked : t.fn = "generateAnimatedLayers"})
    < MaxSegRequests

NextFair ==
  \/ MapReady
  \/ (TimersCanSend /\ GenerateAnalysisClick)
  \/ \E t \in untracked : AutoStartSegmentation(t)
  \/ \E q \in requests : SegmentationFailure(q)
  \/ \E q \in requests, names \in ResponseLayers : SegmentationResponse(q, names)
  \/ \E t \in untracked : ZoomToBoundingBox(t)
  \/ \E t \in untracked : AutoStartAnimation(t)
  \/ \E t \in timers : AnimateNextLayer(t)
  \/ \E t \in timers : FadeIn(t)

TimersFire ==
  /\ WF_vars(\E t \in untracked : AutoStartSegmentation(t))
  /\ WF_vars(\E t \in untracked : ZoomToBoundingBox(t))
  /\ WF_vars(\E t \in untracked : AutoStartAnimation(t))
  /\ WF_vars(\E t \in timers : AnimateNextLayer(t))
  /\ WF_vars(\E t \in timers : FadeIn(t))

SpecFair == Init /\ [][NextFair]_vars /\ TimersFire

\* --------------------------------------------- one component lifetime
\* the segmentation (automatic and by the button), the animation it starts,
\* clearAllLayers called on the current render, and the unmount
NextLifetime ==
  \/ MapReady
  \/ GenerateAnalysisClick
  \/ \E t \in untracked : AutoStartSegmentation(t)
  \/ \E q \in requests : SegmentationFailure(q)
  \/ \E q \in requests, names \in ResponseLayers : SegmentationResponse(q, names)
  \/ \E t \in untracked : ZoomToBoundingBox(t)
  \/ \E t \in untracked : AutoStartAnimation(t)
  \/ \E t \in timers : AnimateNextLayer(t)
  \/ \E t \in timers : FadeIn(t)
  \/ ClearAllLayers
  \/ Unmount

SpecLifetime == Init /\ [][NextLifetime]_vars

\* ------------------------------------------------- drone-image poller
\* One activation of the match page's effect ([submittedImg]): setInterval
\* has been called, elapsed is 0.  Each interval callback is an async
\* function: it runs up to its first await when the interval fires, and each
\* continuation runs when the awaited promise settles, at any later time, so
\* the callbacks of several ticks can be in progress at once.  polls[i] is
\* the position of the i-th callback: "list" (awaiting the storage listing),
\* "submitted" (awaiting urlToBase64(submittedImg)), "compare" (awaiting
\* Promise.all of the comparisons) or "done".
InitPoller ==
  /\ InitComponent
  /\ coordinates = << >>
  /\ heatmapPoints = NotDisplayed
  /\ pathCoordinates = NotDisplayed
  /\ mapBounds = DefaultBounds
  /\ maskRectangles = << >>
  /\ area = << >>
  /\ \E img \in BOOLEAN :
       poller = [interval |-> TRUE, elapsed |-> 0, polls |-> << >>,
                 cleaned |-> FALSE, submittedImg |-> img]

pollerFrame == <<mounted, react, animationRef, renderer, timers, untracked,
                 requests, runs, issued, coordinates, heatmapPoints,
                 pathCoordinates, mapBounds, maskRectangles, area>>

\* the interval fires: elapsed += 5 and the storage listing is requested
PollTick ==
  /\ poller.interval
  /\ Len(poller.polls) < MaxPolls
  /\ poller' = [poller EXCEPT !.elapsed = @ + PollSeconds,
                              !.polls = Append(@, "list")]
  /\ UNCHANGED pollerFrame

\* the end of a callback: if (elapsed >= 20) clearInterval(interval)
PollEnd(p, i) ==
  [p EXCEPT !.polls[i] = "done",
            !.interval = @ /\ ~(p.elapsed >= PollLimit)]

\* the listing settles: with files and a submitted image the callback goes on
\* to the comparison; with an error, no files, no submitted image or an
\* exception it runs to its end
PollListed(i, files) ==
  /\ i \in DOMAIN poller.polls
  /\ poller.polls[i] = "list"
  /\ poller' = IF files /\ poller.submittedImg
               THEN [poller EXCEPT !.polls[i] = "submitted"]
               ELSE PollEnd(poller, i)
  /\ UNCHANGED pollerFrame

\* urlToBase64(submittedImg) settles: the comparisons are sent, or the
\* exception is caught and the callback runs to its end
PollSubmitted(i, ok) ==
  /\ i \in DOMAIN poller.polls
  /\ poller.polls[i] = "submitted"
  /\ poller' = IF ok
               THEN [poller EXCEPT !.polls[i] = "compare"]
               ELSE PollEnd(poller, i)
  /\ UNCHANGED pollerFrame

\* Promise.all of the comparisons settles
PollCompared(i) ==
  /\ i \in DOMAIN poller.polls
  /\ poller.polls[i] = "compare"
  /\ poller' = PollEnd(poller, i)
  /\ UNCHANGED pollerFrame

\* the effect's cleanup: clearInterval(interval)
PollCleanup ==
  /\ ~poller.cleaned
  /\ poller' = [poller EXCEPT !.interval = FALSE, !.cleaned = TRUE]
  /\ UNCHANGED pollerFrame

NextPoller ==
  \/ PollTick
  \/ \E i \in 1..MaxPolls, files \in BOOLEAN : PollListed(i, files)
  \/ \E i \in 1..MaxPolls, ok \in BOOLEAN : PollSubmitted(i, ok)
  \/ \E i \in 1..MaxPolls : PollCompared(i)
  \/ PollCleanup

SpecPoller == InitPoller /\ [][NextPoller]_vars

\* ================================================================ claims
AttachedGround == {id \in DOMAIN groundOverlays : groundOverlays[id].map}
AttachedHeatmap == {id \in DOMAIN heatmapLayers : heatmapLayers[id]}
AttachedFlightPath == {id \in DOMAIN flightOverlays : flightOverlays[id]}

\* C1: when the flight-plan response is OK but flight_path is empty or
\* missing, then once generateFlightPath has finished workflowStep is
\* 'heatmap', loading is false and no flight-path overlay was created.
C1_EmptyFlightPlanIsFailure ==
  [][\A q \in requests :
       (mounted /\ FlightPathResponse(q, "empty")) =>
          /\ workflowStep' = "heatmap"
          /\ ~loading'
          /\ flightOverlays' = flightOverlays
          /\ flightPathOverlay' = flightPathOverlay]_vars

\* C2: when the heatmap request fails, then after
\* generateHeatmapAndFlightPlan has finished workflowStep is 'segmentation',
\* loading is false and the overlays and their attachment are what they were
\* before the request was issued.
C2_HeatmapFailureRestores ==
  [][\A q \in requests :
       (mounted /\ HeatmapFailure(q)) =>
          /\ workflowStep' = "segmentation"
          /\ ~loading'
          /\ OverlaySet' = q.before]_vars

\* C3: after unmount no timer callback and no response continuation changes
\* an overlay, creates or attaches one, moves the viewport, sets
\* animationRef.active to true or schedules a timer.
C3_NoEffectAfterUnmount ==
  [][~mounted =>
       /\ renderer' = renderer
       /\ (animationRef'.active => animationRef.active)
       /\ timers' \subseteq timers
       /\ untracked' \subseteq untracked]_vars

\* C4: at every reachable state at most one stage's overlays are attached to
\* the map: segmentation layers, heatmap layer and flight-path overlays are
\* never attached together in any pair (the mask apart).
C4_OneStageVisible ==
  mounted =>
    /\ ~(AttachedGround # {} /\ AttachedHeatmap # {})
    /\ ~(AttachedGround # {} /\ AttachedFlightPath # {})
    /\ ~(AttachedHeatmap # {} /\ AttachedFlightPath # {})

OnlyHeatmapShown ==
  /\ AttachedGround = {}
  /\ AttachedFlightPath = {}
  /\ AttachedHeatmap = {heatmapOverlay}
  /\ currentView = "heatmap"

OnlySegmentationShown ==
  /\ AttachedHeatmap = {}
  /\ AttachedFlightPath = {}
  /\ AttachedGround = Range(animatedLayers)
  /\ currentView = "segmentation"

\* C5: in the 'complete' stage every user action that switches the view to
\* 'heatmap' (header arrow and navigation button alike) leaves only the
\* heatmap layer attached, with currentView = 'heatmap'; symmetrically for
\* 'segmentation'.
C5_ViewSwitchExclusive ==
  [][/\ (SwitchToHeatmapView \/ SwitchToHeatmapViewUpdated) => OnlyHeatmapShown'
     /\ (SwitchToSegmentationView \/ SwitchToSegmentationViewUpdated)
          => OnlySegmentationShown']_vars

\* C6: a startAnimation called while a run is active cancels that run: from
\* then on exactly one run is going on, every pending timeout belongs to it,
\* and the superseded run executes no callback and fires no completion.
C6_RestartCancelsRun ==
  /\ \A t \in timers : t.run = Len(runs)
  /\ \A r \in DOMAIN runs :
       /\ r < Len(runs) => runs[r].status # "running"
       /\ runs[r].status = "superseded" => runs[r].fired = 0
  /\ animationRef.active => runs # <<>> /\ runs[Len(runs)].status = "running"

C6_Restarted ==
  /\ Len(runs) = 2
  /\ runs[1].status = "superseded"
  /\ runs[1].cut = "fadeIn"
  /\ runs[2].status = "running"
  /\ runs[2].opacity > 0

\* C7: once stopAnimation has returned, also in the middle of a fade, no
\* overlay's opacity changes again as long as no new run is started.
C7_StopHaltsFade ==
  [][(/\ runs # <<>>
      /\ runs[Len(runs)].status = "stopped"
      /\ Len(runs') = Len(runs))
       => \A id \in DOMAIN groundOverlays :
            groundOverlays'[id].opacity = groundOverlays[id].opacity]_vars

C7_StoppedMidFade ==
  /\ mounted
  /\ runs # <<>>
  /\ runs[Len(runs)].status = "stopped"
  /\ runs[Len(runs)].cut = "fadeIn"
  /\ Range(animatedLayers) # {}
  /\ \A id \in Range(animatedLayers) : groundOverlays[id].opacity = StopOpacity

\* C8: every run fires its completion (setTerrainAnalysisComplete(true)) at
\* most once: exactly once when it ends naturally, leaving the engine idle,
\* and never when it was stopped or superseded.
C8_CompletionOncePerRun ==
  \A r \in DOMAIN runs :
    /\ runs[r].fired <= 1
    /\ runs[r].status = "natural" <=> runs[r].fired = 1
    /\ (runs[r].status = "natural" /\ r = Len(runs)) => ~animationRef.active

C8_NaturalAfterStopped ==
  /\ Len(runs) = 2
  /\ runs[1].status = "stopped"
  /\ runs[1].fired = 0
  /\ runs[2].status = "natural"
  /\ runs[2].fired = 1
  /\ ~animationRef.active

\* the opacity of the i-th layer of run r
LayerOpacity(r, i) ==
  groundOverlays[runs[r].handles[runs[r].availableLayers[i]]].opacity

\* C9: during a run the layers fade strictly one after the other in the
\* canonical order: a layer has left opacity 0 only if every layer before it
\* has reached 0.85, and at most one layer is in the middle of its fade.
C9_SequentialFade ==
  (runs # <<>> /\ runs[Len(runs)].status = "running") =>
    LET r == Len(runs)
        n == Len(runs[r].availableLayers)
    IN /\ \A i, j \in 1..n :
            (i < j /\ LayerOpacity(r, j) > 0) => LayerOpacity(r, i) = TargetOpacity
       /\ Cardinality({i \in 1..n : /\ LayerOpacity(r, i) > 0
                                    /\ LayerOpacity(r, i) < TargetOpacity}) <= 1
       /\ \A i, j \in 1..n :
            i < j => \E a, b \in 1..Len(layerOrder) :
                       /\ a < b
                       /\ layerOrder[a] = runs[r].availableLayers[i]
                       /\ layerOrder[b] = runs[r].availableLayers[j]

C9_SecondLayerFading ==
  /\ runs # <<>>
  /\ runs[Len(runs)].status = "running"
  /\ Len(runs[Len(runs)].availableLayers) = 2
  /\ LayerOpacity(Len(runs), 1) = TargetOpacity
  /\ LayerOpacity(Len(runs), 2) > 0
  /\ LayerOpacity(Len(runs), 2) < TargetOpacity

\* C10: generateHeatmapAndFlightPlan is triggered only in states where
\* terrainAnalysisComplete is true, and terrainAnalysisComplete becomes true
\* only in the step in which a run ends naturally: not on the segmentation
\* response, not in stopAnimation, not in clearAllLayers.
C10_HeatmapGatedByAnimation ==
  [][/\ ContinueToHeatmapClick => terrainAnalysisComplete
     /\ (terrainAnalysisComplete' /\ ~terrainAnalysisComplete) =>
          \E r \in DOMAIN runs : /\ runs[r].status = "running"
                                 /\ runs'[r].status = "natural"]_vars

C10_HeatmapRequested ==
  /\ mounted
  /\ terrainAnalysisComplete
  /\ \E q \in requests : q.kind = "heatmap"
  /\ \E r \in DOMAIN runs : runs[r].status = "stopped"
  /\ runs[Len(runs)].status = "natural"

\* C11: when a run over the layers of a successful segmentation response
\* (canonical layer names, such as water and roads) ends naturally,
\* terrainAnalysisComplete is true and exactly the returned layers are
\* visible: each attached at an opacity in [0.7, 0.85], no other segmentation
\* overlay attached.
C11_LayersVisibleAfterAnimation ==
  [][(/\ mounted
      /\ DOMAIN animatedLayers # {}
      /\ DOMAIN animatedLayers \subseteq Range(layerOrder)
      /\ \E r \in DOMAIN runs : /\ runs[r].status = "running"
                                /\ runs'[r].status = "natural")
       => /\ terrainAnalysisComplete'
          /\ AttachedGround' = Range(animatedLayers')
          /\ \A id \in Range(animatedLayers') :
               /\ groundOverlays'[id].opacity >= StopOpacity
               /\ groundOverlays'[id].opacity <= TargetOpacity]_vars

\* C12: at every reachable state at most one backend request is in flight,
\* and loading is true exactly while a request is in flight.
C12_OneRequestAtATime ==
  mounted => /\ Cardinality(requests) <= 1
             /\ loading <=> requests # {}

\* the stage after `step` and the stage before it
NextStage(step) ==
  CASE step = "segmentation" -> "heatmap"
    [] step = "heatmap" -> "flightpath"
    [] step = "flightpath" -> "complete"
    [] OTHER -> "complete"

\* C13: workflowStep is always one of segmentation, heatmap, flightpath,
\* complete, and it changes only one step forward, or one step back to the
\* prior stage (heatmap -> segmentation, flightpath -> heatmap) when that
\* stage's request fails; 'complete' is never left.
C13_StageTransitions ==
  [][mounted' =>
       /\ workflowStep' \in {"segmentation", "heatmap", "flightpath", "complete"}
       /\ \/ workflowStep' = workflowStep
          \/ workflowStep # "complete" /\ workflowStep' = NextStage(workflowStep)
          \/ /\ workflowStep = "heatmap"
             /\ workflowStep' = "segmentation"
             /\ \E q \in requests : q.kind = "heatmap" /\ q \notin requests'
          \/ /\ workflowStep = "flightpath"
             /\ workflowStep' = "heatmap"
             /\ \E q \in requests : q.kind = "flightpath" /\ q \notin requests']_vars

\* C14: whenever workflowStep is 'complete', all three result sets exist and
\* are held by the orchestrator: at least one segmentation layer, a heatmap
\* overlay and a flight-path overlay.
C14_CompleteHasAllResults ==
  (mounted /\ workflowStep = "complete") =>
    /\ DOMAIN animatedLayers # {}
    /\ heatmapOverlay # 0
    /\ heatmapOverlay \in DOMAIN heatmapLayers
    /\ flightPathOverlay # 0
    /\ flightPathOverlay \in DOMAIN flightOverlays

\* no request and no timeout was started by the step
NoRetry == requests' \subseteq requests /\ untracked' \subseteq untracked

\* C15: after any failed stage request (segmentation, heatmap or flight plan,
\* a flight plan with zero waypoints included) the orchestrator is in the
\* stage before the failed one with loading false, has issued no retry, and
\* the trigger of the failed stage is enabled again.
C15_FailureAllowsRetrigger ==
  [][\A q \in requests :
       /\ (mounted /\ SegmentationFailure(q)) =>
            /\ ~loading'
            /\ workflowStep' = workflowStep
            /\ NoRetry
            /\ DOMAIN animatedLayers = {} => GenerateAnalysisShown'
       /\ (mounted /\ HeatmapFailure(q)) =>
            /\ ~loading'
            /\ workflowStep' = "segmentation"
            /\ NoRetry
            /\ ContinueToHeatmapShown'
       /\ (mounted /\ (FlightPathFailure(q) \/ FlightPathResponse(q, "empty"))) =>
            /\ ~loading'
            /\ workflowStep' = "heatmap"
            /\ NoRetry
            /\ GenerateFlightPathShown']_vars

\* the two points of the response are one position, written once as {x, y}
\* and once as {lng, lat}
SamePosition ==
  \E lng \in LngValues, lat \in LatValues :
    /\ coordinates[1] = XY(<<lng>>, <<lat>>)
    /\ coordinates[2] = LngLat(<<lng>>, <<lat>>)

\* both points were dropped, or both were kept with the same position
Identical(data) == Len(data) = 0 \/ (Len(data) = 2 /\ data[1] = data[2])

\* C16: a point supplied as {x, y} and the same point supplied as {lng, lat},
\* a coordinate equal to 0 included, give the identical position handed to
\* the renderer, in the heatmap and in the flight-path normalisation.
C16_KeyNamesRoundTrip ==
  SamePosition =>
    /\ heatmapPoints.called => Identical(heatmapPoints.data)
    /\ pathCoordinates.called => Identical(pathCoordinates.data)

\* the coordinate a point carries under either key name
Resolved(a, b) == IF a # Undefined THEN a ELSE b

\* the point has a latitude in [-90, 90] and a longitude in [-180, 180]
InRange(lat, lng) ==
  /\ lat # Undefined /\ lat[1] >= -90 /\ lat[1] <= 90
  /\ lng # Undefined /\ lng[1] >= -180 /\ lng[1] <= 180

\* how many points of the response are resolvable and in range
ValidPoints ==
  Cardinality({i \in DOMAIN coordinates :
                 InRange(Resolved(coordinates[i].y, coordinates[i].lat),
                         Resolved(coordinates[i].x, coordinates[i].lng))})

\* C17: every heatmap point and every waypoint handed to the renderer has a
\* defined latitude in [-90, 90] and a defined longitude in [-180, 180];
\* the other points are dropped one by one and the valid points of the same
\* response are all rendered.
C17_RenderedPointsInRange ==
  /\ heatmapPoints.called =>
       /\ \A i \in DOMAIN heatmapPoints.data :
            InRange(heatmapPoints.data[i].lat, heatmapPoints.data[i].lng)
       /\ Len(heatmapPoints.data) = ValidPoints
  /\ pathCoordinates.called =>
       /\ \A i \in DOMAIN pathCoordinates.data :
            InRange(pathCoordinates.data[i].lat, pathCoordinates.data[i].lng)
       /\ Len(pathCoordinates.data) = ValidPoints

\* the unit cells of the grid a rectangle covers (none when it is inverted)
Cells(r) ==
  {<<lat, lng>> : lat \in r.south..(r.north - 1), lng \in r.west..(r.east - 1)}

\* C18: the four mask rectangles are pairwise non-overlapping, each has
\* north >= south and east >= west, and their union is exactly the visible
\* extent minus the bounding box.
C18_MaskTilesExtent ==
  Len(maskRectangles) = 4 =>
    /\ \A i \in 1..4 : /\ maskRectangles[i].north >= maskRectangles[i].south
                       /\ maskRectangles[i].east >= maskRectangles[i].west
    /\ \A i, j \in 1..4 :
         i # j => Cells(maskRectangles[i]) \cap Cells(maskRectangles[j]) = {}
    /\ UNION {Cells(maskRectangles[i]) : i \in 1..4}
         = Cells(mapBounds) \ Cells(boundingBox)

\* C19: whenever the visible extent changes while the mask is on (as when
\* zoomToBoundingBox moves the viewport after the mask was created), the old
\* rectangles are torn down and the mask is recomputed.
C19_MaskFollowsExtent ==
  [][(mounted /\ maskOverlay # NoMask /\ maskOverlay \in rectangles
        /\ camera' # camera)
       => /\ maskOverlay \notin rectangles'
          /\ maskOverlay' # NoMask
          /\ maskOverlay' # maskOverlay
          /\ maskOverlay' \in rectangles']_vars

\* C20: the saved view is captured at most once: it is recorded only when no
\* view is saved and the map is not zoomed in, so it is the camera before the
\* first programmatic zoom and is never overwritten with a zoomed-in camera.
C20_SavedViewCapturedOnce ==
  [][(mounted' /\ originalMapView' # originalMapView)
       => /\ originalMapView = "null"
          /\ ~isZoomedIn
          /\ originalMapView' = "home"]_vars

\* C21: zoomToOriginalView changes no state when there is no saved view or no
\* map; with a saved view it moves the camera back to it and sets isZoomedIn
\* to false without clearing the saved view, so that calling it again changes
\* nothing more; resetToDefaultView clears the saved view.
C21_RestoreKeepsSavedView ==
  [][/\ ZoomToOriginalView =>
          IF ~mapInstance \/ originalMapView = "null"
          THEN UNCHANGED vars
          ELSE /\ camera' = originalMapView
               /\ ~isZoomedIn'
               /\ originalMapView' = originalMapView
               /\ UNCHANGED restoreFrame
     /\ (ResetToDefaultView /\ mapInstance) => originalMapView' = "null"]_vars

\* the view was restored: the camera is back on the saved view, which is kept
C21_Restored ==
  /\ mounted
  /\ mapInstance
  /\ originalMapView = "home"
  /\ camera = "home"
  /\ ~isZoomedIn

\* C22: after any sequence of segmentation runs at most one image overlay per
\* layer name is attached to the map, and every attached image overlay is the
\* one tracked under its name in animatedLayers.
C22_OneOverlayPerLayer ==
  mounted =>
    /\ \A a, b \in AttachedGround : a[2] = b[2] => a = b
    /\ AttachedGround \subseteq Range(animatedLayers)

\* a step of the animation engine: startAnimation, a tick of animateNextLayer
\* or fadeIn, or stopAnimation
EngineStep ==
  \/ \E t \in untracked : AutoStartAnimation(t)
  \/ \E t \in timers : AnimateNextLayer(t)
  \/ \E t \in timers : FadeIn(t)
  \/ StartAnimationCall
  \/ StopAnimation

\* C23: a step of the animation engine creates, attaches, detaches and
\* removes no overlay, changes the opacity only of image overlays that are
\* tracked in animatedLayers and attached to the map, and leaves
\* workflowStep, currentView, loading and the mask unchanged.
C23_EngineOnlyFadesTrackedLayers ==
  [][(mounted /\ EngineStep) =>
       /\ DOMAIN groundOverlays' = DOMAIN groundOverlays
       /\ \A id \in DOMAIN groundOverlays :
            /\ groundOverlays'[id].map = groundOverlays[id].map
            /\ groundOverlays'[id].opacity # groundOverlays[id].opacity
                 => id \in Range(animatedLayers) /\ groundOverlays[id].map
       /\ UNCHANGED <<heatmapLayers, flightOverlays, rectangles, maskOverlay,
                      workflowStep, currentView, loading>>]_vars

\* the box has four numeric coordinates and a positive extent in each axis
ValidBox(box) ==
  /\ box.north # NaN /\ box.south # NaN /\ box.east # NaN /\ box.west # NaN
  /\ box.north[1] > box.south[1]
  /\ box.east[1] > box.west[1]

\* C24: with an invalid bounding box (north <= south, east <= west or a
\* coordinate that is not a number) no stage request is issued and
\* workflowStep stays where it is; every box a request was issued for has
\* north > south.
C24_InvalidBoxBlocksStages ==
  ~ValidBox(boundingBox) =>
    /\ requests = {}
    /\ issued.segmentation = 0
    /\ workflowStep = "segmentation"

\* C25: when the flight-plan request fails (a non-OK response or a transport
\* error), then once generateFlightPath has finished workflowStep is
\* 'heatmap', loading is false, there is no flight-path overlay and the
\* 'Generate Flight Path' button is available again.
C25_FlightPathFailureReverts ==
  [][\A q \in requests :
       (mounted /\ FlightPathFailure(q)) =>
          /\ workflowStep' = "heatmap"
          /\ ~loading'
          /\ flightPathOverlay' = 0
          /\ AttachedFlightPath' = {}
          /\ GenerateFlightPathShown']_vars

\* C26: when the segmentation request fails (a non-OK response or an
\* exception), then workflowStep is still 'segmentation' and
\* terrainAnalysisComplete still false, no segmentation overlay and no mask
\* was created, loading is false again and no animation was started.
C26_SegmentationFailureKeepsStage ==
  [][\A q \in requests :
       (mounted /\ SegmentationFailure(q)) =>
          /\ workflowStep' = "segmentation"
          /\ ~terrainAnalysisComplete'
          /\ groundOverlays' = groundOverlays
          /\ rectangles' = rectangles
          /\ maskOverlay' = maskOverlay
          /\ ~loading'
          /\ UNCHANGED <<runs, timers, untracked, animationRef,
                         animationActive>>]_vars

\* C27: once the heatmap has been generated and workflowStep is 'heatmap',
\* with no flight path yet, the user can switch the view back to the
\* segmentation layers: one of the two controls that show them is available.
C27_EarlierStageViewable ==
  (/\ mounted
   /\ ~loading
   /\ workflowStep = "heatmap"
   /\ heatmapComplete
   /\ heatmapData = "data"
   /\ flightPathData = "null"
   /\ currentView = "heatmap")
    => \/ ENABLED SwitchToSegmentationView
       \/ ENABLED SwitchToSegmentationViewUpdated

\* C28: while there is no map instance, an operation that needs the renderer
\* is a no-op: it creates no overlay and no mask, does not move the
\* viewport or save a view, and the workflow neither marks a stage complete
\* nor switches currentView for an overlay that was never created.
C28_NoMapNoEffect ==
  [][(mounted /\ mounted' /\ ~mapInstance /\ ~mapInstance') =>
       /\ DOMAIN groundOverlays' = DOMAIN groundOverlays
       /\ DOMAIN heatmapLayers' = DOMAIN heatmapLayers
       /\ DOMAIN flightOverlays' = DOMAIN flightOverlays
       /\ UNCHANGED <<rectangles, maskOverlay, camera, originalMapView,
                      isZoomedIn>>
       /\ currentView' = currentView
       /\ heatmapComplete' = heatmapComplete
       /\ (workflowStep' = "complete" => workflowStep = "complete")]_vars

\* C29: the 10 km box around a centre has a calculateArea value of 100 km2
\* within 10 per cent (between 90 and 110 km2).
C29_TenKmBoxArea ==
  area # << >> => area[1] >= 9000 /\ area[1] <= 11000

\* C30: after every step each timer the animation engine has pending is
\* recorded in animationRef.timeouts, and when stopAnimation, clearAllLayers
\* or the unmount cleanup has returned no animation timer is pending, the
\* timeouts list is empty and animationRef.active is false.
C30_TimersRecordedAndCancelled ==
  [][/\ \A t \in timers' : t.id \in animationRef'.timeouts
     /\ (StopAnimation \/ ClearAllLayers \/ Unmount) =>
          /\ timers' = {}
          /\ animationRef'.timeouts = {}
          /\ ~animationRef'.active]_vars

\* a run that had a timer pending was stopped and nothing is left of it
C30_NothingPending ==
  /\ runs # <<>>
  /\ runs[Len(runs)].status = "stopped"
  /\ runs[Len(runs)].cut \in {"fadeIn", "animateNextLayer"}
  /\ timers = {}
  /\ animationRef = [active |-> FALSE, timeouts |-> {}]

\* run r has ended by itself: each of its layers is at the target opacity,
\* the engine is idle and the completion has fired
EndedNaturally(r) ==
  /\ runs[r].status = "natural"
  /\ runs[r].fired = 1
  /\ ~animationRef.active
  /\ \A l \in Range(runs[r].availableLayers) :
       groundOverlays[runs[r].handles[l]].opacity = TargetOpacity

\* C31: with every pending timer firing in the end, a run of the animation
\* that is neither stopped nor restarted terminates: each of its layers has
\* reached opacity 0.85, animationRef.active is false and the completion has
\* fired.
C31_RunTerminates ==
  \A r \in 1..MaxRuns :
    (Len(runs) >= r /\ runs[r].status = "running") ~>
      (Len(runs) >= r /\ EndedNaturally(r))

\* a run over two layers has ended by itself
C31_TwoLayersDone ==
  /\ Len(runs) >= 1
  /\ Len(runs[1].availableLayers) = 2
  /\ EndedNaturally(1)

\* C32: with every pending timer firing in the end and no teardown, once a
\* successful segmentation response has installed at least one layer,
\* terrainAnalysisComplete eventually becomes true, whatever the names of the
\* layers and however many segmentation attempts came before.
C32_LayersLeadToCompletion ==
  (DOMAIN animatedLayers # {}) ~> terrainAnalysisComplete

\* C33: the mask is on or off as a unit: while the component is mounted either
\* the four rectangles of the mask held in maskOverlay are the ones attached
\* to the map, or maskOverlay is null and no mask rectangle is attached.
C33_MaskOnOrOffAsUnit ==
  mounted =>
    \/ maskOverlay = NoMask /\ rectangles = {}
    \/ maskOverlay # NoMask /\ rectangles = {maskOverlay}

C35_HeatmapStepHasResult ==
  (mounted /\ workflowStep = "heatmap" /\ requests = {} /\ ~loading)
    => heatmapData = "data" /\ heatmapComplete

\* the overlays of layers whose name is not in layerOrder
OtherOverlays(overlays) ==
  {id \in DOMAIN overlays : id[2] \notin Range(layerOrder)}

C37_ZoomedInHasSavedView ==
  [][/\ (mounted' /\ isZoomedIn') => originalMapView' # "null"
     /\ (mounted /\ mounted' /\ originalMapView # "null"
           /\ originalMapView' = "null")
          => ResetToDefaultView /\ ~isZoomedIn']_vars

\* the startAnimation timeouts set by the auto-start effect in this step
AutoStartScheduled ==
  {t \in untracked' \ untracked : t.fn = "startAnimation"}

\* C38: the animation is auto-started at most once per component lifetime:
\* a startAnimation timeout is set only in the step that turns hasAutoStarted
\* from false to true, and while the component is mounted hasAutoStarted is
\* never reset, so no later layer set (after clearAllLayers or a second
\* segmentation) gets an automatically scheduled startAnimation.
C38_AutoStartOnlyOnce ==
  [][/\ (mounted /\ mounted' /\ hasAutoStarted) => hasAutoStarted'
     /\ AutoStartScheduled # {}
          => /\ Cardinality(AutoStartScheduled) = 1
             /\ mounted
             /\ ~hasAutoStarted
             /\ hasAutoStarted']_vars

\* the layers of the second segmentation are installed, the first set was
\* auto-started and is no longer animated, and no startAnimation is scheduled
C38_SecondLayerSetNotStarted ==
  /\ mounted
  /\ hasAutoStarted
  /\ ~animationActive
  /\ DOMAIN animatedLayers # {}
  /\ \A l \in DOMAIN animatedLayers : animatedLayers[l][1] = 2
  /\ Len(runs) = 1
  /\ \A l \in DOMAIN runs[1].handles : runs[1].handles[l][1] = 1
  /\ ~\E t \in untracked : t.fn = "startAnimation"

\* C39: within one activation of the polling effect the storage listing is
\* requested at most 4 times, however long a poll's asynchronous work takes,
\* and no poll starts after the effect's cleanup has run.
C39_AtMostFourPolls ==
  [][/\ Len(poller'.polls) <= 4
     /\ poller.cleaned => Len(poller'.polls) = Len(poller.polls)]_vars

====
